---- MODULE Spec2Model ----
\* The in-memory virtual filesystem of src/shell_emulator.py (VirtualFileSystem)
\* and the command dispatcher that drives it (execute_command, repl_loop).
\*
\* A Python str is a sequence of one-character strings: "/a/b" is
\* <<"/", "a", "/", "b">>.  split, rstrip, startswith and join are defined on
\* that representation, character by character, as Python computes them.
EXTENDS Integers, Sequences, FiniteSets, TLC

VARIABLES vfs_content, current_path, should_exit, last,
          pc, script, zip_data_b64, VFS_INSTANCE, load_error

\* vfs_content and current_path are the fields of VFS_INSTANCE, should_exit
\* is the flag of the loop that is running, last is what the last command was
\* and printed, pc is the place in configure_and_start, script holds the
\* lines of the startup script not yet read, zip_data_b64 is the text of the
\* archive and load_error what was printed when loading it failed.
vars == <<vfs_content, current_path, should_exit, last,
          pc, script, zip_data_b64, VFS_INSTANCE, load_error>>

\* the variables of configure_and_start that a command leaves alone
startup == <<pc, script, zip_data_b64, VFS_INSTANCE, load_error>>

----------------------------------------------------------------------------
\* Bounds of the model.

\* Longest command argument of the engine, in "/"-separated pieces.
MaxArgSegs == 2

\* Longest expression handed to _normalize_path on its own, in pieces.
MaxExprSegs == 3

\* Longest startup script, in lines.
MaxScriptLines == 2

----------------------------------------------------------------------------
\* Python str primitives.

Slash == "/"

Str(c) == <<c>>

Root == <<"/">>

Empty == <<>>

Dot == <<".">>

DotDot == <<".", ".">>

\* str.startswith(prefix)
StartsWith(s, prefix) ==
    /\ Len(prefix) <= Len(s)
    /\ SubSeq(s, 1, Len(prefix)) = prefix

\* str.rstrip('/')
RECURSIVE RStrip(_)
RStrip(s) ==
    IF s # <<>> /\ s[Len(s)] = Slash
    THEN RStrip(SubSeq(s, 1, Len(s) - 1))
    ELSE s

\* index of the first "/" of s at or after i, or 0
RECURSIVE FindSlash(_, _)
FindSlash(s, i) ==
    IF i > Len(s) THEN 0
    ELSE IF s[i] = Slash THEN i
    ELSE FindSlash(s, i + 1)

\* str.split('/'): the pieces between separators, empty pieces kept
RECURSIVE Split(_)
Split(s) ==
    LET i == FindSlash(s, 1)
    IN  IF i = 0 THEN <<s>>
        ELSE <<SubSeq(s, 1, i - 1)>> \o Split(SubSeq(s, i + 1, Len(s)))

\* sep.join(parts)
RECURSIVE Join(_, _)
Join(parts, sep) ==
    IF parts = <<>> THEN <<>>
    ELSE IF Len(parts) = 1 THEN parts[1]
    ELSE parts[1] \o sep \o Join(Tail(parts), sep)

Front(s) == SubSeq(s, 1, Len(s) - 1)

----------------------------------------------------------------------------
\* Path resolution.

\* [p for p in path.split('/') if p]
_get_path_parts(path) == SelectSeq(Split(path), LAMBDA p : p # <<>>)

\* mutant of NormalizeLoop: ".." with nothing to pop is kept as a segment
RECURSIVE NormalizeLoop_dotdot_kept_at_root(_, _)
NormalizeLoop_dotdot_kept_at_root(parts, todo) ==
    IF todo = <<>> THEN parts
    ELSE LET part == Head(todo)
             next == IF part = DotDot
                     THEN (IF Len(parts) > 0 THEN Front(parts)
                           ELSE Append(parts, part))
                     ELSE IF part # Dot THEN Append(parts, part)
                     ELSE parts
         IN  NormalizeLoop_dotdot_kept_at_root(next, Tail(todo))

\* mutant of NormalizeLoop: "." is appended like a name
RECURSIVE NormalizeLoop_dot_appended(_, _)
NormalizeLoop_dot_appended(parts, todo) ==
    IF todo = <<>> THEN parts
    ELSE LET part == Head(todo)
             next == IF part = DotDot
                     THEN (IF Len(parts) > 0 THEN Front(parts) ELSE parts)
                     ELSE Append(parts, part)
         IN  NormalizeLoop_dot_appended(next, Tail(todo))

\* the for loop of _normalize_path over the parts of a relative path
RECURSIVE NormalizeLoop(_, _)
NormalizeLoop(parts, todo) ==
    IF todo = <<>> THEN parts
    ELSE LET part == Head(todo)
             next == IF part = DotDot
                     THEN (IF Len(parts) > 0 THEN Front(parts) ELSE parts)
                     ELSE IF part # Dot THEN Append(parts, part)
                     ELSE parts
         IN  NormalizeLoop(next, Tail(todo))

\* mutant of _normalize_path: a relative path is resolved from the root
_normalize_path_from_root(path, cwd) ==
    IF StartsWith(path, Root)
    THEN (IF path # Root THEN RStrip(path) ELSE Root)
    ELSE Root \o Join(NormalizeLoop(<<>>, _get_path_parts(path)), Root)

\* VirtualFileSystem._normalize_path, with self.current_path as cwd
_normalize_path(path, cwd) ==
    IF StartsWith(path, Root)
    THEN (IF path # Root THEN RStrip(path) ELSE Root)
    ELSE Root \o Join(NormalizeLoop(_get_path_parts(cwd), _get_path_parts(path)),
                      Root)

----------------------------------------------------------------------------
\* The archive and the store built from it.

A == <<"a">>

Btxt == <<"b", ".", "t", "x", "t">>

Missing == <<"m", "i", "s", "s", "i", "n", "g">>

Hello == <<"h", "e", "l", "l", "o">>

\* a payload with a byte that is not valid UTF-8
HiBadByte == <<"h", "xFF", "i">>

\* ZipInfo.is_dir(): the member's name ends with "/"
is_dir(member) ==
    /\ member.filename # <<>>
    /\ member.filename[Len(member.filename)] = Slash

\* bytes.decode('utf-8', errors='ignore'): undecodable bytes are dropped
decode_ignore(data) == SelectSeq(data, LAMBDA b : b # "xFF")

\* the spec's round-trip archive: directory a, file a/b.txt holding hello
ArchiveDirAndFile ==
    << [filename |-> A \o Root, data |-> <<>>],
       [filename |-> A \o Root \o Btxt, data |-> Hello] >>

\* files only: a/b.txt has no entry for its parent directory
ArchiveFilesOnly ==
    << [filename |-> A \o Root \o Btxt, data |-> HiBadByte],
       [filename |-> Btxt, data |-> <<>>] >>

\* nested directories, and the same names on several levels
ArchiveNested ==
    << [filename |-> A \o Root, data |-> <<>>],
       [filename |-> A \o Root \o A \o Root, data |-> <<>>],
       [filename |-> A \o Root \o A \o Root \o Btxt, data |-> Hello],
       [filename |-> Btxt, data |-> HiBadByte] >>

Archives == {ArchiveDirAndFile, ArchiveFilesOnly, ArchiveNested}

\* the content of a directory entry (Python's None)
None == <<"None">>

\* one pass of the loop over zf.infolist(): the entry a member is stored as
member_entry(member) ==
    IF is_dir(member)
    THEN [type |-> "dir", content |-> None]
    ELSE [type |-> "file", content |-> decode_ignore(member.data)]

\* '/' + member.filename.rstrip('/')
member_path(member) == Root \o RStrip(member.filename)

\* VirtualFileSystem.load_from_base64 on a well-formed archive with members:
\* each member is stored under its path, a later member replacing an earlier
\* one of the same path
RECURSIVE load_members(_, _)
load_members(store, members) ==
    IF members = <<>> THEN store
    ELSE LET m == Head(members)
             p == member_path(m)
             rest == [q \in DOMAIN store \ {p} |-> store[q]]
         IN  load_members(rest @@ (p :> member_entry(m)), Tail(members))

load_from_base64(members) == load_members(<<>>, members)

\* a member whose stored bytes do not match its CRC-32
BadCrc == <<"badCRC">>

\* a directory and a file that cannot be read
ArchiveCorruptMember ==
    << [filename |-> A \o Root, data |-> <<>>],
       [filename |-> A \o Root \o Btxt, data |-> BadCrc] >>

\* The text of the archive file.  alphabet: every character is of the base64
\* alphabet; padded: what is left of it, the other characters discarded, has
\* a correct length and padding; bytes: whether it decodes to a ZIP
\* container; members: the members of that container.
TextOf(archive) ==
    [alphabet |-> TRUE, padded |-> TRUE, bytes |-> "zip", members |-> archive]

\* "abc"
TextBadPadding ==
    [alphabet |-> TRUE, padded |-> FALSE, bytes |-> "other", members |-> <<>>]

\* "!!!!": b64decode discards every character and returns b""
TextNoBase64 ==
    [alphabet |-> FALSE, padded |-> TRUE, bytes |-> "other", members |-> <<>>]

\* "YWJj": the base64 of bytes that are no ZIP container
TextNotZip ==
    [alphabet |-> TRUE, padded |-> TRUE, bytes |-> "other", members |-> <<>>]

TextEmptyZip == TextOf(<<>>)

FailingTexts ==
    {TextBadPadding, TextNoBase64, TextNotZip, TextEmptyZip,
     TextOf(ArchiveCorruptMember)}

Texts == { TextOf(archive) : archive \in Archives } \cup FailingTexts

NoError == [type |-> "", message |-> "", detail |-> ""]

BadZipFormat ==
    [type |-> "ValueError",
     message |-> "VFS load error: Invalid or corrupted ZIP file format.",
     detail |-> ""]

\* the except Exception clause of load_from_base64 wrapping exception e
FailedToProcess(e) ==
    [type |-> "RuntimeError",
     message |-> "VFS load error: Failed to process VFS data",
     detail |-> e]

\* file.read() raises BadZipFile for a member with a bad CRC-32
readable(member) == is_dir(member) \/ member.data # BadCrc

\* the members the loop stores before it is left: all of them, or those
\* before the first that cannot be read
RECURSIVE members_read(_)
members_read(members) ==
    IF members = <<>> \/ ~readable(Head(members)) THEN <<>>
    ELSE <<Head(members)>> \o members_read(Tail(members))

\* VirtualFileSystem.load_from_base64 on any text: the exception it raises,
\* if any, and self.vfs_content as it stands then
load_outcome(text) ==
    IF ~text.padded
    THEN [error |-> FailedToProcess("Incorrect padding"), store |-> <<>>]
    ELSE IF text.bytes # "zip"
    THEN [error |-> BadZipFormat, store |-> <<>>]
    ELSE IF text.members = <<>>
    THEN [error |-> FailedToProcess("ZIP archive is empty."), store |-> <<>>]
    ELSE IF members_read(text.members) # text.members
    THEN [error |-> BadZipFormat,
          store |-> load_members(<<>>, members_read(text.members))]
    ELSE [error |-> NoError, store |-> load_members(<<>>, text.members)]

\* the except clauses of configure_and_start: what is printed before exit(1)
surfaced(e) ==
    [type |-> e.type,
     prefix |-> IF e.type = "ValueError" THEN "shell: VFS load error: "
                ELSE "shell: VFS Fatal Error: ",
     message |-> e.message,
     detail |-> e.detail]

NothingSurfaced == [type |-> "", prefix |-> "", message |-> "", detail |-> ""]

----------------------------------------------------------------------------
\* cd, ls, cat.

NoSuchFile == "No such file or directory"

NotADirectory == "Not a directory"

IsADirectory == "Is a directory"

\* lines 103-106 of cd: the normalized target, "" standing for the root
cd_new_path(target_path, cwd) ==
    LET new_path == _normalize_path(target_path, cwd)
    IN  IF new_path = <<>> THEN Root ELSE new_path

\* mutant of cd: the cursor is assigned before the checks
cd_assigns_before_checks(target_path, cwd, store) ==
    LET new_path == cd_new_path(target_path, cwd)
    IN  IF new_path \notin DOMAIN store /\ new_path # Root
        THEN [ok |-> FALSE, err |-> NoSuchFile, out |-> <<>>,
              resolved |-> new_path, cursor |-> new_path]
        ELSE IF new_path # Root /\ store[new_path].type # "dir"
        THEN [ok |-> FALSE, err |-> NotADirectory, out |-> <<>>,
              resolved |-> new_path, cursor |-> new_path]
        ELSE [ok |-> TRUE, err |-> "", out |-> <<>>,
              resolved |-> new_path, cursor |-> new_path]

\* mutant of cd: the kind of the entry is not looked at
cd_into_any_entry(target_path, cwd, store) ==
    LET new_path == cd_new_path(target_path, cwd)
    IN  IF new_path \notin DOMAIN store /\ new_path # Root
        THEN [ok |-> FALSE, err |-> NoSuchFile, out |-> <<>>,
              resolved |-> new_path, cursor |-> cwd]
        ELSE [ok |-> TRUE, err |-> "", out |-> <<>>,
              resolved |-> new_path, cursor |-> new_path]

\* mutant of cd: a successful cd does not store the new cursor
cd_forgets_cursor(target_path, cwd, store) ==
    LET new_path == cd_new_path(target_path, cwd)
    IN  IF new_path \notin DOMAIN store /\ new_path # Root
        THEN [ok |-> FALSE, err |-> NoSuchFile, out |-> <<>>,
              resolved |-> new_path, cursor |-> cwd]
        ELSE IF new_path # Root /\ store[new_path].type # "dir"
        THEN [ok |-> FALSE, err |-> NotADirectory, out |-> <<>>,
              resolved |-> new_path, cursor |-> cwd]
        ELSE [ok |-> TRUE, err |-> "", out |-> <<>>,
              resolved |-> new_path, cursor |-> cwd]

\* VirtualFileSystem.cd: the result and the cursor it leaves
cd(target_path, cwd, store) ==
    LET new_path == cd_new_path(target_path, cwd)
    IN  IF new_path \notin DOMAIN store /\ new_path # Root
        THEN [ok |-> FALSE, err |-> NoSuchFile, out |-> <<>>,
              resolved |-> new_path, cursor |-> cwd]
        ELSE IF new_path # Root /\ store[new_path].type # "dir"
        THEN [ok |-> FALSE, err |-> NotADirectory, out |-> <<>>,
              resolved |-> new_path, cursor |-> cwd]
        ELSE [ok |-> TRUE, err |-> "", out |-> <<>>,
              resolved |-> new_path, cursor |-> new_path]

\* Python's order on str: by code point, a proper prefix first
CodePoint(c) ==
    CASE c = " " -> 32
      [] c = "." -> 46
      [] c = "/" -> 47
      [] c = "a" -> 97
      [] c = "b" -> 98
      [] c = "e" -> 101
      [] c = "g" -> 103
      [] c = "h" -> 104
      [] c = "i" -> 105
      [] c = "l" -> 108
      [] c = "m" -> 109
      [] c = "n" -> 110
      [] c = "o" -> 111
      [] c = "s" -> 115
      [] c = "t" -> 116
      [] c = "x" -> 120

RECURSIVE StrLess(_, _)
StrLess(s, t) ==
    IF t = <<>> THEN FALSE
    ELSE IF s = <<>> THEN TRUE
    ELSE IF s[1] # t[1] THEN CodePoint(s[1]) < CodePoint(t[1])
    ELSE StrLess(Tail(s), Tail(t))

\* mutant of sorted: the names come out in descending order
RECURSIVE sorted_descending(_)
sorted_descending(names) ==
    IF names = {} THEN <<>>
    ELSE LET greatest == CHOOSE n \in names :
                             \A m \in names \ {n} : StrLess(m, n)
         IN  <<greatest>> \o sorted_descending(names \ {greatest})

\* sorted(contents)
RECURSIVE sorted(_)
sorted(names) ==
    IF names = {} THEN <<>>
    ELSE LET least == CHOOSE n \in names :
                          \A m \in names \ {n} : StrLess(n, m)
         IN  <<least>> \o sorted(names \ {least})

\* the loop of ls over the store: the names directly under prefix, each once
ls_contents(prefix, store) ==
    { Split(SubSeq(entry_path, Len(prefix) + 1, Len(entry_path)))[1] :
        entry_path \in { k \in DOMAIN store :
                            StartsWith(k, prefix) /\ k # prefix } }

\* mutant of ls: a file operand is printed like cat prints it
ls_prints_file_content(path, cwd, store) ==
    LET target == _normalize_path(path, cwd)
        prefix == IF target = Root THEN target ELSE target \o Root
    IN  IF target \notin DOMAIN store /\ target # Root
        THEN [ok |-> FALSE, err |-> NoSuchFile, out |-> <<>>,
              resolved |-> target]
        ELSE IF target # Root /\ store[target].type # "dir"
        THEN [ok |-> TRUE, err |-> "",
              out |-> store[target].content, resolved |-> target]
        ELSE [ok |-> TRUE, err |-> "",
              out |-> Join(sorted(ls_contents(prefix, store)), Str(" ")),
              resolved |-> target]

\* VirtualFileSystem.ls
ls(path, cwd, store) ==
    LET target == _normalize_path(path, cwd)
        prefix == IF target = Root THEN target ELSE target \o Root
    IN  IF target \notin DOMAIN store /\ target # Root
        THEN [ok |-> FALSE, err |-> NoSuchFile, out |-> <<>>,
              resolved |-> target]
        ELSE IF target # Root /\ store[target].type # "dir"
        THEN [ok |-> TRUE, err |-> "",
              out |-> Split(target)[Len(Split(target))], resolved |-> target]
        ELSE [ok |-> TRUE, err |-> "",
              out |-> Join(sorted(ls_contents(prefix, store)), Str(" ")),
              resolved |-> target]

\* mutant of cat: a directory is read like a file
cat_reads_directory(path, cwd, store) ==
    LET target == _normalize_path(path, cwd)
    IN  IF target \notin DOMAIN store
        THEN [ok |-> FALSE, err |-> NoSuchFile, out |-> <<>>,
              resolved |-> target]
        ELSE [ok |-> TRUE, err |-> "", out |-> store[target].content,
              resolved |-> target]

\* VirtualFileSystem.cat
cat(path, cwd, store) ==
    LET target == _normalize_path(path, cwd)
    IN  IF target \notin DOMAIN store
        THEN [ok |-> FALSE, err |-> NoSuchFile, out |-> <<>>,
              resolved |-> target]
        ELSE IF store[target].type = "dir"
        THEN [ok |-> FALSE, err |-> IsADirectory, out |-> <<>>,
              resolved |-> target]
        ELSE [ok |-> TRUE, err |-> "", out |-> store[target].content,
              resolved |-> target]

----------------------------------------------------------------------------
\* The command lines the session is fed.

Pieces == {Empty, Dot, DotDot, A, Btxt}

PieceSeqs(n) == UNION { [1..k -> Pieces] : k \in 1..n }

\* the pieces joined by "/", with and without a leading "/"
Exprs(n) ==
    { Join(ps, Root) : ps \in PieceSeqs(n) }
        \cup { Root \o Join(ps, Root) : ps \in PieceSeqs(n) }

Targets == Exprs(MaxArgSegs) \cup {Root \o Missing}

\* args[1:] of a command line: no argument, or one
ArgumentLists == {<<>>} \cup { <<t>> : t \in Targets }

\* arguments of the commands that never read them
IgnoredArgumentLists == {<<>>, <<A>>}

UnknownCommands == {"pwd", "echo"}

SUPPORTED_COMMANDS == {"ls", "cd", "exit", "cat"}

NoCommand ==
    [cmd |-> "", args |-> <<>>, ok |-> TRUE, err |-> "", out |-> <<>>,
     resolved |-> <<>>, before |-> Root]

\* what the last command was given, and what it printed
Report(command, arguments, r, cwd) ==
    [cmd |-> command, args |-> arguments, ok |-> r.ok, err |-> r.err,
     out |-> r.out, resolved |-> r.resolved, before |-> cwd]

\* execute_command(args) and the assignment of its result to should_exit in
\* repl_loop; args is never empty there
execute_command(args) ==
    LET command == Head(args)
        arguments == Tail(args)
    IN  IF command = "exit"
        THEN /\ should_exit' = TRUE
             /\ last' = Report(command, arguments,
                               [ok |-> TRUE, err |-> "", out |-> <<>>,
                                resolved |-> <<>>], current_path)
             /\ UNCHANGED <<vfs_content, current_path>>
        ELSE IF command = "cd"
        THEN LET target == IF arguments # <<>> THEN arguments[1] ELSE Root
                 r == cd(target, current_path, vfs_content)
             IN  /\ current_path' = r.cursor
                 /\ last' = Report(command, arguments, r, current_path)
                 /\ should_exit' = FALSE
                 /\ UNCHANGED vfs_content
        ELSE IF command = "ls"
        THEN LET target == IF arguments # <<>> THEN arguments[1] ELSE Dot
                 r == ls(target, current_path, vfs_content)
             IN  /\ last' = Report(command, arguments, r, current_path)
                 /\ should_exit' = FALSE
                 /\ UNCHANGED <<vfs_content, current_path>>
        ELSE IF command = "cat"
        THEN IF arguments = <<>>
             THEN /\ last' = Report(command, arguments,
                                    [ok |-> FALSE, err |-> "Missing file operand",
                                     out |-> <<>>, resolved |-> <<>>],
                                    current_path)
                  /\ should_exit' = FALSE
                  /\ UNCHANGED <<vfs_content, current_path>>
             ELSE LET r == cat(arguments[1], current_path, vfs_content)
                  IN  /\ last' = Report(command, arguments, r, current_path)
                      /\ should_exit' = FALSE
                      /\ UNCHANGED <<vfs_content, current_path>>
        ELSE IF command \notin SUPPORTED_COMMANDS
        THEN /\ last' = Report(command, arguments,
                               [ok |-> FALSE, err |-> "command not found",
                                out |-> <<>>, resolved |-> <<>>], current_path)
             /\ should_exit' = FALSE
             /\ UNCHANGED <<vfs_content, current_path>>
        ELSE /\ should_exit' = FALSE
             /\ UNCHANGED <<vfs_content, current_path, last>>

\* VirtualFileSystem.__init__ on a loadable archive, then the REPL's first turn
Init ==
    /\ \E archive \in Archives :
          /\ vfs_content = load_from_base64(archive)
          /\ zip_data_b64 = TextOf(archive)
    /\ current_path = Root
    /\ should_exit = FALSE
    /\ last = NoCommand
    /\ pc = "repl"
    /\ script = <<>>
    /\ VFS_INSTANCE = "VirtualFileSystem"
    /\ load_error = NothingSurfaced

\* one turn of repl_loop for each command the line may hold

\* mutant of Ls: listing a directory also moves the cursor there
Ls_moves_cursor ==
    /\ ~should_exit
    /\ \E arguments \in ArgumentLists :
          LET target == IF arguments # <<>> THEN arguments[1] ELSE Dot
              r == ls(target, current_path, vfs_content)
          IN  /\ last' = Report("ls", arguments, r, current_path)
              /\ current_path' = (IF r.ok THEN r.resolved ELSE current_path)
              /\ UNCHANGED <<vfs_content, should_exit>>
    /\ pc = "repl"
    /\ UNCHANGED startup

Exit ==
    /\ pc = "repl"
    /\ ~should_exit
    /\ \E arguments \in IgnoredArgumentLists :
           execute_command(<<"exit">> \o arguments)
    /\ UNCHANGED startup

\* mutant of Cd: a directory that is absent is created on the way
Cd_creates_directory ==
    /\ pc = "repl"
    /\ ~should_exit
    /\ \E arguments \in ArgumentLists :
          LET target == IF arguments # <<>> THEN arguments[1] ELSE Root
              new_path == cd_new_path(target, current_path)
          IN  /\ vfs_content' =
                     IF new_path \in DOMAIN vfs_content \/ new_path = Root
                     THEN vfs_content
                     ELSE vfs_content
                              @@ (new_path :> [type |-> "dir", content |-> None])
              /\ LET r == cd(target, current_path, vfs_content')
                 IN  /\ current_path' = r.cursor
                     /\ last' = Report("cd", arguments, r, current_path)
              /\ should_exit' = FALSE
    /\ UNCHANGED startup

Cd ==
    /\ pc = "repl"
    /\ ~should_exit
    /\ \E arguments \in ArgumentLists : execute_command(<<"cd">> \o arguments)
    /\ UNCHANGED startup

Ls ==
    /\ pc = "repl"
    /\ ~should_exit
    /\ \E arguments \in ArgumentLists : execute_command(<<"ls">> \o arguments)
    /\ UNCHANGED startup

Cat ==
    /\ pc = "repl"
    /\ ~should_exit
    /\ \E arguments \in ArgumentLists : execute_command(<<"cat">> \o arguments)
    /\ UNCHANGED startup

\* mutant of Unknown: a command that is not found ends the session
Unknown_ends_session ==
    /\ pc = "repl"
    /\ ~should_exit
    /\ \E command \in UnknownCommands, arguments \in IgnoredArgumentLists :
          /\ last' = Report(command, arguments,
                            [ok |-> FALSE, err |-> "command not found",
                             out |-> <<>>, resolved |-> <<>>], current_path)
          /\ should_exit' = TRUE
          /\ UNCHANGED <<vfs_content, current_path>>
    /\ UNCHANGED startup

Unknown ==
    /\ pc = "repl"
    /\ ~should_exit
    /\ \E command \in UnknownCommands, arguments \in IgnoredArgumentLists :
           execute_command(<<command>> \o arguments)
    /\ UNCHANGED startup

\* input() raises EOFError
EndOfInput ==
    /\ pc = "repl"
    /\ ~should_exit
    /\ should_exit' = TRUE
    /\ UNCHANGED <<vfs_content, current_path, last>>
    /\ UNCHANGED startup

Next == Exit \/ Cd \/ Ls \/ Cat \/ Unknown \/ EndOfInput

Spec == Init /\ [][Next]_vars

\* an archive with a member name that holds a "." segment: directory a and
\* directory a/./, stored under "/a" and "/a/."
ArchiveDotSegment ==
    << [filename |-> A \o Root, data |-> <<>>],
       [filename |-> A \o Root \o Dot \o Root, data |-> <<>>],
       [filename |-> A \o Root \o Dot \o Root \o Btxt, data |-> Hello] >>

\* VirtualFileSystem.__init__ on archives whose member names need not be
\* canonical
InitAnyNames ==
    /\ \E archive \in {ArchiveDotSegment, ArchiveDirAndFile} :
          /\ vfs_content = load_from_base64(archive)
          /\ zip_data_b64 = TextOf(archive)
    /\ current_path = Root
    /\ should_exit = FALSE
    /\ last = NoCommand
    /\ pc = "repl"
    /\ script = <<>>
    /\ VFS_INSTANCE = "VirtualFileSystem"
    /\ load_error = NothingSurfaced

SpecAnyNames == InitAnyNames /\ [][Next]_vars

----------------------------------------------------------------------------
\* configure_and_start: the load, the startup script, then the REPL.

\* the lines of a startup script as parse_command returns them; <<>> is a
\* line that is skipped (blank, a comment, or one that does not parse)
ScriptLines ==
    {<<>>, <<"exit">>, <<"cd", A>>, <<"ls">>, <<"cat", A \o Root \o Btxt>>,
     <<"pwd">>}

Scripts == UNION { [1..k -> ScriptLines] : k \in 0..MaxScriptLines }

\* configure_and_start before the archive is loaded; without --startup-script
\* the script has no lines
InitStartup ==
    /\ zip_data_b64 \in Texts
    /\ script \in Scripts
    /\ pc = "start"
    /\ VFS_INSTANCE = "None"
    /\ vfs_content = <<>>
    /\ current_path = <<>>
    /\ should_exit = FALSE
    /\ last = NoCommand
    /\ load_error = NothingSurfaced

\* mutant of LoadVfs: an exception of the load is swallowed and the instance
\* is kept as far as it was filled
LoadVfs_keeps_partial_instance ==
    /\ pc = "start"
    /\ LET outcome == load_outcome(zip_data_b64)
       IN  /\ VFS_INSTANCE' = "VirtualFileSystem"
           /\ vfs_content' = outcome.store
           /\ current_path' = Root
           /\ pc' = "script"
           /\ load_error' = surfaced(outcome.error)
    /\ UNCHANGED <<should_exit, last, script, zip_data_b64>>

\* VFS_INSTANCE = VirtualFileSystem(zip_data_b64) and its except clauses
LoadVfs ==
    /\ pc = "start"
    /\ LET outcome == load_outcome(zip_data_b64)
       IN  IF outcome.error = NoError
           THEN /\ VFS_INSTANCE' = "VirtualFileSystem"
                /\ vfs_content' = outcome.store
                /\ current_path' = Root
                /\ pc' = "script"
                /\ UNCHANGED load_error
           ELSE /\ load_error' = surfaced(outcome.error)
                /\ pc' = "aborted"
                /\ UNCHANGED <<VFS_INSTANCE, vfs_content, current_path>>
    /\ UNCHANGED <<should_exit, last, script, zip_data_b64>>

\* one pass of the loop of execute_startup_script
ScriptLine ==
    /\ pc = "script"
    /\ script # <<>>
    /\ LET args == Head(script)
       IN  IF args = <<>>
           THEN /\ pc' = "script"
                /\ UNCHANGED <<vfs_content, current_path, should_exit, last>>
           ELSE /\ execute_command(args)
                /\ pc' = IF should_exit' THEN "script_exited" ELSE "script"
    /\ script' = Tail(script)
    /\ UNCHANGED <<zip_data_b64, VFS_INSTANCE, load_error>>

\* execute_startup_script has returned, or there was no script:
\* repl_loop is called and sets its should_exit to False
StartRepl ==
    /\ \/ pc = "script_exited"
       \/ pc = "script" /\ script = <<>>
    /\ pc' = "repl"
    /\ script' = <<>>
    /\ should_exit' = FALSE
    /\ UNCHANGED <<vfs_content, current_path, last>>
    /\ UNCHANGED <<zip_data_b64, VFS_INSTANCE, load_error>>

NextStartup ==
    \/ LoadVfs
    \/ ScriptLine
    \/ StartRepl
    \/ Exit
    \/ Cd
    \/ Ls
    \/ Cat
    \/ Unknown
    \/ EndOfInput

SpecStartup == InitStartup /\ [][NextStartup]_vars

----------------------------------------------------------------------------
\* _normalize_path on its own: every expression against every canonical
\* cursor, applied once and then once more to its own result.

Names == {A, Btxt}

MaxCursorDepth == 2

\* the canonical absolute paths of at most n names
CanonicalPaths(n) ==
    {Root} \cup { Root \o Join(ns, Root) :
                    ns \in UNION { [1..k -> Names] : k \in 1..n } }

\* an archive holding the directories down to d and one file
RECURSIVE ArchiveDownTo(_, _)
ArchiveDownTo(done, todo) ==
    IF todo = <<>> THEN << [filename |-> Btxt, data |-> Hello] >>
    ELSE LET dir == done \o Head(todo) \o Root
         IN  << [filename |-> dir, data |-> <<>>] >>
                 \o ArchiveDownTo(dir, Tail(todo))

\* an engine whose cursor has been moved to d
InitNormalize ==
    /\ \E d \in CanonicalPaths(MaxCursorDepth) :
          /\ current_path = d
          /\ vfs_content = load_from_base64(ArchiveDownTo(<<>>, _get_path_parts(d)))
          /\ zip_data_b64 = TextOf(ArchiveDownTo(<<>>, _get_path_parts(d)))
    /\ should_exit = FALSE
    /\ last = NoCommand
    /\ pc = "repl"
    /\ script = <<>>
    /\ VFS_INSTANCE = "VirtualFileSystem"
    /\ load_error = NothingSurfaced

Normalize ==
    /\ last.cmd = ""
    /\ \E path \in Exprs(MaxExprSegs) :
          last' = [NoCommand EXCEPT !.cmd = "normalize", !.args = <<path>>,
                      !.resolved = _normalize_path(path, current_path),
                      !.before = current_path]
    /\ UNCHANGED <<vfs_content, current_path, should_exit>>
    /\ UNCHANGED startup

NormalizeAgain ==
    /\ last.cmd = "normalize"
    /\ last' = [last EXCEPT !.cmd = "normalize twice", !.out = last.resolved,
                   !.resolved = _normalize_path(last.resolved, current_path)]
    /\ UNCHANGED <<vfs_content, current_path, should_exit>>
    /\ UNCHANGED startup

NextNormalize == Normalize \/ NormalizeAgain

SpecNormalize == InitNormalize /\ [][NextNormalize]_vars

----------------------------------------------------------------------------
\* What the properties below speak of.

\* the operand the last command resolved: its first argument, or its default
Target ==
    IF last.args # <<>> THEN last.args[1]
    ELSE IF last.cmd = "cd" THEN Root
    ELSE Dot

IsAbsolute(path) == path # <<>> /\ path[1] = Slash

\* no ".", "..", empty segment or trailing slash: "/" or "/" and names
IsCanonical(path) ==
    /\ IsAbsolute(path)
    /\ \/ path = Root
       \/ \A i \in 1..Len(Split(path)) :
             LET seg == Split(path)[i]
             IN  IF i = 1 THEN seg = <<>> ELSE seg \notin {<<>>, Dot, DotDot}

\* the segments accumulated after processing segs, left to right, from start
RECURSIVE Accumulated(_, _)
Accumulated(start, segs) ==
    IF segs = <<>> THEN start
    ELSE LET acc == Accumulated(start, Front(segs))
             seg == segs[Len(segs)]
         IN  CASE seg = <<>> \/ seg = Dot -> acc
               [] seg = DotDot -> IF acc = <<>> THEN acc ELSE Front(acc)
               [] OTHER -> Append(acc, seg)

\* "/" plus the segments joined by "/", exactly "/" if none
Serialized(segs) == IF segs = <<>> THEN Root ELSE Root \o Join(segs, Root)

\* the names of a canonical path
NamesOf(d) == IF d = Root THEN <<>> ELSE Tail(Split(d))

\* the path the rules of resolution give for expression against cursor d
Resolution(expression, d) ==
    Serialized(Accumulated(IF IsAbsolute(expression) THEN <<>> ELSE NamesOf(d),
                           Split(expression)))

Absent(path) == path \notin DOMAIN vfs_content

IsFile(path) == ~Absent(path) /\ vfs_content[path].type = "file"

IsDirectory(path) == ~Absent(path) /\ vfs_content[path].type = "dir"

----------------------------------------------------------------------------
\* C1: a cd that fails, because the resolved path is absent and not the root
\* or because it is a file, leaves the cursor where it was; cd /missing fails
\* with "No such file or directory" and leaves the cursor where it was.
C1_FailedCdKeepsCursor ==
    last.cmd = "cd" =>
        /\ ~last.ok => current_path = last.before
        /\ (last.resolved # Root /\ Absent(last.resolved)) =>
               ~last.ok /\ current_path = last.before
        /\ IsFile(last.resolved) => ~last.ok /\ current_path = last.before
        /\ last.args = <<Root \o Missing>> =>
               /\ ~last.ok
               /\ last.err = NoSuchFile
               /\ current_path = last.before

\* cd /missing has failed in a session whose cursor had left the root
C1_Witness ==
    /\ last.cmd = "cd"
    /\ last.args = <<Root \o Missing>>
    /\ ~last.ok
    /\ last.before = Root \o A
    /\ current_path = Root \o A

\* C2: the cursor is "/" after construction, and a command leaves it changed
\* only if it is a cd that succeeded; ls, cat, a failed cd, cat without an
\* operand and unrecognized commands leave it as it was.
C2_CursorLifecycle ==
    /\ last.cmd = "" => current_path = Root
    /\ current_path # last.before => (last.cmd = "cd" /\ last.ok)
    /\ last.cmd \in {"ls", "cat", "exit"} \cup UnknownCommands =>
           current_path = last.before
    /\ (last.cmd = "cd" /\ ~last.ok) => current_path = last.before

\* an ls of another directory has succeeded away from the root
C2_Witness ==
    /\ last.cmd = "ls"
    /\ last.ok
    /\ last.before = Root \o A
    /\ last.resolved = Root
    /\ current_path = Root \o A

\* C3: an expression that starts with "/" is resolved from the root by the
\* segment rules ("." and empty segments skipped, ".." pops): the result is
\* canonical and does not depend on the cursor.
C3_AbsoluteResolvedByRules ==
    (last.cmd = "normalize" /\ IsAbsolute(Target)) =>
        /\ last.resolved = Resolution(Target, Root)
        /\ IsCanonical(last.resolved)

\* C4: a relative expression is resolved from the cursor's segments: "." and
\* empty segments are skipped, ".." pops the last segment if there is one,
\* any other segment is appended; the result is "/" plus the segments joined
\* by "/", or "/" when none remain.
C4_RelativeResolvedByRules ==
    (last.cmd = "normalize" /\ ~IsAbsolute(Target)) =>
        last.resolved = Resolution(Target, current_path)

\* "..//b.txt" has been resolved against /a/a
C4_Witness ==
    /\ last.cmd = "normalize"
    /\ current_path = Root \o A \o Root \o A
    /\ Target = DotDot \o Root \o Root \o Btxt
    /\ last.resolved = Root \o A \o Root \o Btxt

\* C5: normalizing the result of normalizing an absolute expression gives
\* that result again.
C5_IdempotentOnAbsolute ==
    (last.cmd = "normalize twice" /\ IsAbsolute(Target)) =>
        last.resolved = last.out

\* the last command resolved an operand
Resolving ==
    \/ last.cmd \in {"cd", "ls"}
    \/ last.cmd = "cat" /\ last.args # <<>>

\* walking segs from the given depth, some ".." is met at depth 0
RECURSIVE PopsAtRoot(_, _)
PopsAtRoot(depth, segs) ==
    IF segs = <<>> THEN FALSE
    ELSE LET seg == Head(segs)
         IN  IF seg = DotDot
             THEN depth = 0 \/ PopsAtRoot(depth - 1, Tail(segs))
             ELSE IF seg = <<>> \/ seg = Dot
             THEN PopsAtRoot(depth, Tail(segs))
             ELSE PopsAtRoot(depth + 1, Tail(segs))

OnlyDots(path) ==
    \A i \in 1..Len(Split(path)) : Split(path)[i] \in {<<>>, Dot, DotDot}

C7_DotIsCursor ==
    /\ (Resolving /\ Target = Dot) => last.resolved = last.before
    /\ (last.cmd = "ls" /\ last.args = <<>>) =>
           last.ok /\ last.resolved = last.before
    /\ (last.cmd = "cd" /\ Target = Dot) =>
           last.ok /\ current_path = last.before

\* cd . has been issued two directories below the root
C7_Witness ==
    /\ last.cmd = "cd"
    /\ last.args = <<Dot>>
    /\ last.ok
    /\ last.before = Root \o A \o Root \o A
    /\ current_path = last.before

\* C8: "/" is a present directory for every operation: cd / succeeds, ls /
\* succeeds, and cat / fails with "Is a directory".
C8_RootIsDirectory ==
    (Resolving /\ last.args = <<Root>>) =>
        /\ last.cmd = "cd" => last.ok /\ current_path = Root
        /\ last.cmd = "ls" => last.ok
        /\ last.cmd = "cat" => ~last.ok /\ last.err = IsADirectory

RECURSIVE Words(_)
Words(line) ==
    IF line = <<>> THEN <<>>
    ELSE IF \E i \in 1..Len(line) : line[i] = " "
    THEN LET i == CHOOSE i \in 1..Len(line) :
                      /\ line[i] = " "
                      /\ \A j \in 1..(i - 1) : line[j] # " "
         IN  <<SubSeq(line, 1, i - 1)>> \o Words(SubSeq(line, i + 1, Len(line)))
    ELSE <<line>>

\* key lies strictly below directory d
StrictlyBelow(key, d) ==
    /\ Len(NamesOf(key)) > Len(NamesOf(d))
    /\ SubSeq(NamesOf(key), 1, Len(NamesOf(d))) = NamesOf(d)

\* the first segment of key after d
FirstSegmentBelow(key, d) == NamesOf(key)[Len(NamesOf(d)) + 1]

\* the last command listed a directory
ListedDirectory ==
    /\ last.cmd = "ls"
    /\ last.ok
    /\ last.resolved = Root \/ IsDirectory(last.resolved)

\* C11: the names ls prints for a directory are in strictly ascending order,
\* hence without duplicates, and are exactly the first segments of the
\* stored keys strictly below the directory.
C11_ListingSortedExact ==
    ListedDirectory =>
        LET names == Words(last.out)
        IN  /\ \A i, j \in 1..Len(names) :
                   i < j => StrLess(names[i], names[j])
            /\ { names[i] : i \in 1..Len(names) } =
                   { FirstSegmentBelow(k, last.resolved) :
                       k \in { q \in DOMAIN vfs_content :
                                  StrictlyBelow(q, last.resolved) } }

\* the root of the nested archive, where three keys start with a, has been
\* listed as "a b.txt"
C11_Witness ==
    /\ ListedDirectory
    /\ vfs_content = load_from_base64(ArchiveNested)
    /\ last.resolved = Root
    /\ last.out = A \o Str(" ") \o Btxt

\* C12: ls of a path that resolves to a file succeeds and prints the last
\* segment of the resolved path, not the file's text; ls of an absent path
\* other than the root fails with "No such file or directory".
C12_LsOfFileOrAbsent ==
    last.cmd = "ls" =>
        /\ IsFile(last.resolved) =>
               /\ last.ok
               /\ last.err = ""
               /\ last.out = NamesOf(last.resolved)[Len(NamesOf(last.resolved))]
        /\ (Absent(last.resolved) /\ last.resolved # Root) =>
               ~last.ok /\ last.err = NoSuchFile

\* ls b.txt in /a has printed b.txt, where cat prints hello
C12_Witness ==
    /\ last.cmd = "ls"
    /\ last.args = <<Btxt>>
    /\ last.before = Root \o A
    /\ last.ok
    /\ last.out = Btxt
    /\ vfs_content[last.resolved].content = Hello

\* the absolute path of name in directory d
PathUnder(d, name) == Serialized(Append(NamesOf(d), name))

\* report and r tell the same outcome
SameOutcome(report, r) ==
    /\ report.ok = r.ok
    /\ report.err = r.err
    /\ report.out = r.out

\* the last command queried "." or a name, and got what the absolute path of
\* the same place in directory d gets
FollowsCursor(report, d) ==
    /\ (report.cmd = "ls" /\ report.args \in {<<>>, <<Dot>>}) =>
           SameOutcome(report, ls(d, Root, vfs_content))
    /\ (report.cmd = "cat" /\ report.args \in { <<n>> : n \in Names }) =>
           SameOutcome(report, cat(PathUnder(d, report.args[1]), Root,
                                   vfs_content))

IsRoundTripArchive == vfs_content = load_from_base64(ArchiveDirAndFile)

C13_AtCursor ==
    /\ FollowsCursor(last, last.before)
    /\ (IsRoundTripArchive /\ last.cmd = "ls" /\ last.args = <<Root>>) =>
           last.ok /\ last.out = A

C13_AfterCd ==
    (last.cmd = "cd" /\ last.ok /\ last' # last) =>
        /\ FollowsCursor(last', last.resolved)
        /\ (IsRoundTripArchive /\ last.args = <<A>> /\ last.before = Root) =>
               /\ (last'.cmd = "ls" /\ last'.args = <<Dot>>) =>
                      last'.ok /\ last'.out = Btxt
               /\ (last'.cmd = "cat" /\ last'.args = <<Btxt>>) =>
                      last'.ok /\ last'.out = Hello

----------------------------------------------------------------------------
\* Loading.

\* why a text cannot be loaded, "" if it can
Cause(text) ==
    IF ~text.alphabet \/ ~text.padded THEN "DecodeError"
    ELSE IF text.bytes # "zip" THEN "ArchiveFormatError"
    ELSE IF text.members = <<>> THEN "EmptyArchiveError"
    ELSE IF \E i \in 1..Len(text.members) : text.members[i].data = BadCrc
    THEN "ArchiveFormatError"
    ELSE ""

\* C14: a text that is no base64, a malformed container and an archive
\* without entries each abort the start with an error that is reported, and
\* texts that fail for different ones of these three reasons are reported as
\* different errors.
C14_LoadFailuresDistinct ==
    /\ (pc # "start" /\ Cause(zip_data_b64) # "") =>
           pc = "aborted" /\ load_error # NothingSurfaced
    /\ pc = "aborted" =>
           \A other \in FailingTexts :
               Cause(other) # Cause(zip_data_b64) =>
                   surfaced(load_outcome(other).error) # load_error

\* C15: a load that fails aborts construction: an instance exists only with
\* the store of all the members of a loadable archive, and after a failure
\* no instance exists and neither the script nor the REPL runs a command.
C15_FailedLoadAborts ==
    /\ VFS_INSTANCE # "None" =>
           /\ Cause(zip_data_b64) = ""
           /\ \A i \in 1..Len(zip_data_b64.members) :
                  member_path(zip_data_b64.members[i]) \in DOMAIN vfs_content
    /\ (pc # "start" /\ Cause(zip_data_b64) # "") =>
           /\ pc = "aborted"
           /\ VFS_INSTANCE = "None"
           /\ vfs_content = <<>>
           /\ last = NoCommand
    /\ (pc \in {"script", "script_exited", "repl"} \/ last # NoCommand) =>
           VFS_INSTANCE # "None"

\* the load has failed at the second member of an archive, with a script of
\* two commands waiting
C15_Witness ==
    /\ pc = "aborted"
    /\ zip_data_b64 = TextOf(ArchiveCorruptMember)
    /\ script = << <<"cd", A>>, <<"ls">> >>
    /\ VFS_INSTANCE = "None"
    /\ load_error.type = "ValueError"

----------------------------------------------------------------------------
\* The session.

\* the cursor is the root or a directory of the store
CursorValid(cursor, store) ==
    \/ cursor = Root
    \/ cursor \in DOMAIN store /\ store[cursor].type = "dir"

\* a command other than exit was run: the loop goes on, with the same store
\* and a valid cursor
C16_CommandStep ==
    (last' # last /\ last'.cmd # "exit") =>
        /\ ~should_exit'
        /\ pc' = "repl"
        /\ vfs_content' = vfs_content
        /\ CursorValid(current_path', vfs_content')

\* the loop is left only by exit or by the end of the input
C16_ExitStep ==
    (should_exit' /\ ~should_exit) => (last'.cmd = "exit" \/ last' = last)

\* C16: a cd, ls or cat that fails, a cat without operand and a command that
\* is not found do not end the session: exit is requested by the command
\* exit only, and after any other command the REPL reads the next one with
\* the same store and a valid cursor.
C16_FailuresRecoverable == [][C16_CommandStep /\ C16_ExitStep]_vars

\* a cat of a directory has failed below the root and the REPL goes on
C16_Witness ==
    /\ pc = "repl"
    /\ last.cmd = "cat"
    /\ last.err = IsADirectory
    /\ last.before = Root \o A
    /\ ~should_exit

\* C17: no command adds, removes or changes an entry of the store built at
\* construction.
C17_StoreReadOnly == [][vfs_content' = vfs_content]_vars

\* cd, to a directory two levels down, has left the nested store as loaded
C17_Witness ==
    /\ last.cmd = "cd"
    /\ last.ok
    /\ current_path = Root \o A \o Root \o A
    /\ vfs_content = load_from_base64(ArchiveNested)

\* C18: the cursor is always "/" or a directory of the store, and a canonical
\* absolute path; so ls . never fails with "No such file or directory" and
\* cd . always succeeds.
C18_CursorValid ==
    /\ CursorValid(current_path, vfs_content)
    /\ IsCanonical(current_path)
    /\ (last.cmd = "ls" /\ Target = Dot) => last.err # NoSuchFile
    /\ (last.cmd = "cd" /\ Target = Dot) => last.ok

\* C19: every name that ls prints for a directory denotes an entry that can
\* be resolved: ls of it does not fail with "No such file or directory", and
\* exactly one of cd and cat of it succeeds.
C19_ListedNamesResolve ==
    ListedDirectory =>
        \A i \in 1..Len(Words(last.out)) :
            LET path == PathUnder(last.resolved, Words(last.out)[i])
            IN  /\ ls(path, Root, vfs_content).err # NoSuchFile
                /\ cd(path, Root, vfs_content).ok
                       # cat(path, Root, vfs_content).ok

\* C20: once the startup script has run exit, none of its later lines is
\* run and the REPL is not entered; the REPL is entered only from a script
\* that came to its end, or without a script.
C20_ScriptExitEndsShell ==
    [][ /\ pc = "script_exited" => (pc' # "repl" /\ last' = last)
        /\ (pc' = "repl" /\ pc # "repl") => (pc = "script" /\ script = <<>>)
      ]_vars

====
